---- MODULE Spec2Model ----
(***************************************************************************)
(* Verification pipeline of the CAD-Query MCP server.                      *)
(*                                                                         *)
(*   core : src/src/verify_helper.py            verify_model (async)        *)
(*   pkg  : src/src/ai_3d_print/verify_helper.py verify_model               *)
(*   tool : src/server.py                        verify_cad_query           *)
(*   load_cadquery_model : src/src/render_cad.py (same text in ai_3d_print) *)
(*                                                                         *)
(* Python values are modelled by strings; a text built with an f-string is *)
(* the sequence of its parts, so that "the text contains the cause" is a   *)
(* test on the parts.                                                      *)
(***************************************************************************)
EXTENDS Integers, Sequences, FiniteSets, TLC

VARIABLES pc, impl, args, script, calls, effects, outcome, model, png_results,
          api_key, png_files, requests, outputs_dir, runs, unit, disk

vars == <<pc, impl, args, script, calls, effects, outcome, model, png_results,
          api_key, png_files, requests, outputs_dir, runs, unit, disk>>

----------------------------------------------------------------------------
(* Bounds *)

\* longest script handed to load_cadquery_model when it is called directly
MaxStmts == 3
\* longest script handed to a whole verification run
MaxRunStmts == 1

----------------------------------------------------------------------------
(* Python values *)

None == "None"
Absent == "<absent>"

\* cq.Workplane instances a script can build
Workplanes == {"W1", "W2"}
\* a value of any other type (a cq.Shape, an Assembly, a number)
Others == {"N1"}
Values == Workplanes \cup Others

\* isinstance(obj, cq.Workplane)
IsWorkplane(v) == v \in Workplanes

\* result_candidates, in the order of the list literal
result_candidates == <<"result", "model", "part", "shape">>

\* names a script binds: the four conventional ones, two public ones, a private one
Names == {"result", "model", "part", "shape", "box", "lid", "_w"}

\* name.startswith("_")
StartsWithUnderscore(n) == n \in {"_w", "__builtins__"}

\* statements of a script: show_object(v), name = v, raise Exception(msg)
Statements ==
    [op : {"show"}, name : {Absent}, value : Values]
      \cup [op : {"bind"}, name : Names, value : Values]
      \cup [op : {"raise"}, name : {Absent}, value : {"boom"}]

SeqsUpTo(S, n) == UNION {[1..k -> S] : k \in 0..n}

----------------------------------------------------------------------------
(* load_cadquery_model *)

\* the namespace dict handed to exec, in insertion order
InitialNamespace ==
    << [name |-> "cadquery", value |-> "cq_module"],
       [name |-> "cq", value |-> "cq_module"],
       [name |-> "show_object", value |-> "show_object_fn"],
       [name |-> "__builtins__", value |-> "builtins"] >>

HasKey(ns, n) == \E i \in 1..Len(ns) : ns[i].name = n

Lookup(ns, n) == ns[CHOOSE i \in 1..Len(ns) : ns[i].name = n].value

\* dict assignment: a rebound name keeps its position, a new name goes last
DictSet(ns, n, v) ==
    IF HasKey(ns, n)
    THEN [i \in 1..Len(ns) |-> IF ns[i].name = n THEN [name |-> n, value |-> v] ELSE ns[i]]
    ELSE Append(ns, [name |-> n, value |-> v])

\* exec(script_content, namespace): statements run in order until one raises
RECURSIVE ExecFrom(_, _, _, _)
ExecFrom(s, i, shown, ns) ==
    IF i > Len(s)
    THEN [raised |-> FALSE, exc |-> None, shown_objects |-> shown, namespace |-> ns]
    ELSE CASE s[i].op = "raise" ->
                [raised |-> TRUE, exc |-> s[i].value, shown_objects |-> shown, namespace |-> ns]
           [] s[i].op = "show" ->
                ExecFrom(s, i + 1, Append(shown, s[i].value), ns)
           [] s[i].op = "bind" ->
                ExecFrom(s, i + 1, shown, DictSet(ns, s[i].name, s[i].value))

Exec(s) == ExecFrom(s, 1, <<>>, InitialNamespace)

\* variant: the loop keeps the last Workplane instead of returning at the first
FirstShownWorkplane_Last(shown) ==
    IF \E i \in 1..Len(shown) : IsWorkplane(shown[i])
    THEN LET i == CHOOSE k \in 1..Len(shown) :
                     /\ IsWorkplane(shown[k])
                     /\ \A j \in (k + 1)..Len(shown) : ~IsWorkplane(shown[j])
         IN  [found |-> TRUE, value |-> shown[i]]
    ELSE [found |-> FALSE, value |-> None]

\* for obj in shown_objects: if isinstance(obj, cq.Workplane): return obj
FirstShownWorkplane(shown) ==
    IF \E i \in 1..Len(shown) : IsWorkplane(shown[i])
    THEN LET i == CHOOSE k \in 1..Len(shown) :
                     /\ IsWorkplane(shown[k])
                     /\ \A j \in 1..(k - 1) : ~IsWorkplane(shown[j])
         IN  [found |-> TRUE, value |-> shown[i]]
    ELSE [found |-> FALSE, value |-> None]

\* variant: the last conventional name that holds a Workplane wins
FirstCandidate_Last(ns) ==
    IF \E k \in 1..Len(result_candidates) :
           /\ HasKey(ns, result_candidates[k])
           /\ IsWorkplane(Lookup(ns, result_candidates[k]))
    THEN LET hit(c) == /\ HasKey(ns, result_candidates[c])
                       /\ IsWorkplane(Lookup(ns, result_candidates[c]))
             k == CHOOSE c \in 1..Len(result_candidates) :
                     /\ hit(c)
                     /\ \A j \in (c + 1)..Len(result_candidates) : ~hit(j)
         IN  [found |-> TRUE, value |-> Lookup(ns, result_candidates[k])]
    ELSE [found |-> FALSE, value |-> None]

\* for candidate in result_candidates: if candidate in namespace and isinstance(...)
IsCandidateHit(ns, k) ==
    /\ HasKey(ns, result_candidates[k])
    /\ IsWorkplane(Lookup(ns, result_candidates[k]))

FirstCandidate(ns) ==
    IF \E k \in 1..Len(result_candidates) : IsCandidateHit(ns, k)
    THEN LET k == CHOOSE c \in 1..Len(result_candidates) :
                     /\ IsCandidateHit(ns, c)
                     /\ \A j \in 1..(c - 1) : ~IsCandidateHit(ns, j)
         IN  [found |-> TRUE, value |-> Lookup(ns, result_candidates[k])]
    ELSE [found |-> FALSE, value |-> None]

\* variant: the scan does not skip the names that start with an underscore
IsScanHit_Private(ns, i) == IsWorkplane(ns[i].value)

\* for name, value in namespace.items(): Workplane and not name.startswith("_")
IsScanHit(ns, i) == IsWorkplane(ns[i].value) /\ ~StartsWithUnderscore(ns[i].name)

FirstInNamespace(ns) ==
    IF \E i \in 1..Len(ns) : IsScanHit(ns, i)
    THEN LET i == CHOOSE k \in 1..Len(ns) :
                     /\ IsScanHit(ns, k)
                     /\ \A j \in 1..(k - 1) : ~IsScanHit(ns, j)
         IN  [found |-> TRUE, value |-> ns[i].value]
    ELSE [found |-> FALSE, value |-> None]

Returned(v, by) == [ok |-> TRUE, value |-> v, exc |-> None, strategy |-> by]
Raised(e) == [ok |-> FALSE, value |-> None, exc |-> e, strategy |-> None]

NoLoad == [ok |-> FALSE, value |-> None, exc |-> None, strategy |-> "not called"]

\* variant: the conventional names are tried before the published objects
Discover_CandidatesFirst(shown, ns) ==
    IF FirstCandidate(ns).found
    THEN Returned(FirstCandidate(ns).value, "candidate")
    ELSE IF shown # <<>> /\ FirstShownWorkplane(shown).found
    THEN Returned(FirstShownWorkplane(shown).value, "show_object")
    ELSE IF FirstInNamespace(ns).found
    THEN Returned(FirstInNamespace(ns).value, "namespace")
    ELSE Raised("No CAD-Query Workplane object found in script")

\* the discovery chain after exec returned
Discover(shown, ns) ==
    IF shown # <<>> /\ FirstShownWorkplane(shown).found
    THEN Returned(FirstShownWorkplane(shown).value, "show_object")
    ELSE IF FirstCandidate(ns).found
    THEN Returned(FirstCandidate(ns).value, "candidate")
    ELSE IF FirstInNamespace(ns).found
    THEN Returned(FirstInNamespace(ns).value, "namespace")
    ELSE Raised("No CAD-Query Workplane object found in script")

load_cadquery_model(exists, s) ==
    IF ~exists
    THEN Raised("Script not found")
    ELSE LET run == Exec(s)
         IN  IF run.raised THEN Raised(run.exc)
             ELSE Discover(run.shown_objects, run.namespace)

----------------------------------------------------------------------------
(* Verdicts and exceptions *)

NoOutcome == [kind |-> "none", status |-> None, reasoning |-> <<>>, criteria |-> None, exc |-> None]

\* a value handed back to the caller
Verdict(st, text, crit) ==
    [kind |-> "verdict", status |-> st, reasoning |-> text, criteria |-> crit, exc |-> None]

\* an exception that leaves the entry point
Escaped(e) ==
    [kind |-> "raised", status |-> None, reasoning |-> <<>>, criteria |-> None, exc |-> e]

\* variant: the verdict is built without the caller's criteria
VerificationResult_NoEcho(st, text, crit) ==
    IF crit = None THEN Escaped("ValidationError") ELSE Verdict(st, text, "")

\* pydantic model with three required str fields: None is rejected at construction
VerificationResult(st, text, crit) ==
    IF crit = None THEN Escaped("ValidationError") ELSE Verdict(st, text, crit)

\* `success, error_msg = generate_stl(...)`: only a pair can be unpacked
IsPair(ret) == ret \notin BOOLEAN

\* `await x`: only an awaitable can be awaited; verify_cad_with_vllm is a plain def
IsAwaitable(fn) == fn \notin {"verify_cad_with_vllm"}

\* parameters of ai_3d_print.verify_helper.verify_model
PkgParams == {"file_path", "verification_criteria"}

\* keyword used by verify_cad_query in its call of verify_model
ToolKeyword == "criteria"

----------------------------------------------------------------------------
(* Inputs of a run *)

Criteria == {None, "", "a simple cube"}

\* the entry points: the two verify_model functions, the MCP tool, and the renderer
\* and the verifier called on their own
Impls == {"core", "pkg", "tool", "vllm", "openai", "blender"}

\* where the script is: the directories of its (relative) path and its base name
\* without the suffix; args.py tells whether the suffix is .py
ScriptPaths == [dir : {<<>>, <<"models">>, <<"ws", "models">>}, stem : {"cube"}]

DirectPath == [dir |-> <<"ws", "models">>, stem |-> "cube"]

Args ==
    [exists : BOOLEAN, py : BOOLEAN, criteria : Criteria, output_path : {None, "custom"},
     file_path : ScriptPaths]

NoArgs ==
    [exists |-> FALSE, py |-> FALSE, criteria |-> None, output_path |-> None,
     file_path |-> DirectPath]

\* Path.parent of a relative directory: the parent of "." is "."
Parent(dir) == IF dir = <<>> THEN <<>> ELSE SubSeq(dir, 1, Len(dir) - 1)

\* script_path.parent.parent / "outputs" / file_name
DefaultOutputsDir(p) == Parent(p.dir) \o <<"outputs", p.stem>>

\* the outputs_dir of src/src/verify_helper.py verify_model: `if output_path:`
CoreOutputsDir(p, output_path) ==
    IF output_path # None THEN <<output_path, p.stem>> ELSE DefaultOutputsDir(p)

\* the parameters of ai_3d_print verify_model that take a positional argument
PkgPositionals == <<"file_path", "verification_criteria">>

\* Python truthiness of the criteria text
Truthy(c) == c \notin {None, ""}

\* view names: the Blender table and the pyrender table
BlenderViews == <<"front", "right", "top", "iso", "back_left", "bottom_right">>
PyrenderViews == <<"front", "right", "top", "iso">>

Range(f) == {f[i] : i \in DOMAIN f}

NoPng == [status |-> None, files |-> {}, errors |-> {}]

\* what a run leaves on disk: the output directory, the mesh in it, the images in it,
\* and the control script of the renderer in the system temp directory
OutputsDir == <<"dir", "outputs_dir">>
StlFile == <<"stl", "mesh">>
TempScript == <<"tmp", "blender_script">>

\* the image files of the given views
PngFiles(views) == {<<"png", v>> : v \in views}

\* variant: any error makes the status "error"
UpdateStatus_NoPartial(files, errors) ==
    IF errors # {} THEN "error" ELSE "success"

\* "Update status based on results", the same four lines in the three generators
UpdateStatus(files, errors) ==
    IF errors # {} /\ files = {} THEN "error"
    ELSE IF errors # {} THEN "partial"
    ELSE "success"

\* ai_3d_print generate_png_views: per-view try/except, then the status update
generate_png_views(mesh_ok, ok_views) ==
    LET files  == IF mesh_ok THEN ok_views ELSE {}
        errors == IF mesh_ok THEN Range(PyrenderViews) \ ok_views ELSE {"mesh"}
    IN  [status |-> UpdateStatus(files, errors),
         files  |-> files,
         errors |-> errors]

\* views of generate_svg_views, in the order of its dict
SvgViews == <<"right", "top", "down", "iso">>

\* generate_svg_views: per-view try/except, then the status update
generate_svg_views(ok_views) ==
    LET files  == ok_views
        errors == Range(SvgViews) \ ok_views
    IN  [status |-> UpdateStatus(files, errors), files |-> files, errors |-> errors]

\* convert_svg_views_to_png: one convert_svg_to_png per entry of svg_files
convert_svg_views_to_png(svg_files, ok_views) ==
    LET files  == svg_files \cap ok_views
        errors == svg_files \ ok_views
    IN  [status |-> UpdateStatus(files, errors), files |-> files, errors |-> errors]

\* replies of the chat-completions endpoint to the request of
\* analyze_cad_images_with_gpt4: a JSON text with a verification_result, a JSON text
\* without one, a text that is not JSON, a status other than 200, or nothing
ServiceReplies ==
    [kind : {"json"}, verification_result : {"PASS", "FAIL", "MAYBE"}]
      \cup [kind : {"json without verification_result", "not JSON", "http error",
                    "no response"},
            verification_result : {None}]

VisionSuccess(vr) == [status |-> "SUCCESS", verification_result |-> vr, message |-> None]
VisionError(msg) == [status |-> "ERROR", verification_result |-> "FAIL", message |-> msg]

\* ai_3d_print analyze_cad_images_with_gpt4: the key test, the image test, the request
\* (timeout=60), then the parse of the reply
analyze_cad_images_with_gpt4(key, images, reply) ==
    IF ~key THEN VisionError("OpenAI API key not provided")
    ELSE IF images = <<>> THEN VisionError("No valid images found for analysis")
    ELSE CASE reply.kind = "json" -> VisionSuccess(reply.verification_result)
           [] reply.kind = "not JSON" -> VisionSuccess("FAIL")
           [] reply.kind = "json without verification_result" ->
                  VisionError("Unexpected error during vision analysis")
           [] reply.kind = "http error" -> VisionError("OpenAI API error")
           [] reply.kind = "no response" -> VisionError("Network error during API request")

\* openai.OpenAI(api_key=None) with no OPENAI_API_KEY in the environment
ApiKeyError == "OpenAIError: The api_key client option must be set"

VllmErrors == {"APITimeoutError", "AuthenticationError", "ValidationError in parse"}

\* what the structured-output call does: a parsed {result, analysis} (result is a
\* plain str field), or an exception
VllmResponses ==
    [error : {None}, result : {"PASS", "FAIL", "MAYBE"}, analysis : {"looks like a cube"}]
      \cup [error : VllmErrors, result : {None}, analysis : {None}]

\* items of a message's content list
PromptItem == [type |-> "text", about |-> "prompt and criteria"]
LabelItem(v) == [type |-> "text", about |-> v]
ImageItem(v) == [type |-> "image_url", about |-> v]

\* the loop that fills image_content: a view whose file does not exist adds nothing;
\* verify_cad_with_vllm puts a "View: <name>" text item before each image
RECURSIVE ImageContent(_, _, _)
ImageContent(views, on_disk, labelled) ==
    IF views = <<>> THEN <<>>
    ELSE LET v    == Head(views)
             rest == ImageContent(Tail(views), on_disk, labelled)
         IN  IF v \notin on_disk THEN rest
             ELSE (IF labelled THEN <<LabelItem(v)>> ELSE <<>>) \o <<ImageItem(v)>> \o rest

\* messages = [{"role": "user", "content": [{"type": "text", ...}, *image_content]}]
Messages(views, on_disk, labelled) ==
    <<[role |-> "user", content |-> <<PromptItem>> \o ImageContent(views, on_disk, labelled)]>>

\* one entry of the run's call log: the stage invoked, how it ended, and what the
\* vision service answered (None for the other stages)
Called(st, res) == [stage |-> st, result |-> res, answer |-> None]
Answered(res, ans) == [stage |-> "vision", result |-> res, answer |-> ans]

\* no function is being exercised on its own
NoUnit == [fn |-> None]

----------------------------------------------------------------------------
(* One verification run *)

Init ==
    /\ pc = "idle"
    /\ impl = None
    /\ args = NoArgs
    /\ script = <<>>
    /\ calls = <<>>
    /\ effects = {}
    /\ outcome = NoOutcome
    /\ model = NoLoad
    /\ png_results = NoPng
    /\ api_key = FALSE
    /\ png_files = <<>>
    /\ requests = <<>>
    /\ outputs_dir = None
    /\ runs = <<>>
    /\ unit = NoUnit
    /\ disk = {}

\* what the caller may pass: core takes criteria (default None) and output_path,
\* pkg takes verification_criteria (default ""), the tool two required strings,
\* verify_cad_with_vllm the image paths and the criteria
ArgsOf(i) ==
    CASE i = "core" -> Args
      [] i = "pkg"  -> {a \in Args : a.criteria # None}
      [] i = "tool" -> {a \in Args : a.criteria # None /\ a.output_path = None
                                        /\ a.file_path = DirectPath}
      [] i = "vllm" -> {a \in Args : a.exists /\ a.py /\ a.output_path = None
                                        /\ a.file_path = DirectPath}
      [] i = "openai" -> {a \in Args : a.exists /\ a.py /\ a.output_path = None
                                          /\ a.file_path = DirectPath}
      [] i = "blender" -> {a \in Args : a.exists /\ a.py /\ a.criteria = None
                                           /\ a.file_path = DirectPath}

\* the positional arguments of a call: file_path, the criteria, and output_path when
\* the caller gives one
Positionals(a) ==
    IF a.output_path # None THEN <<"file_path", "criteria", "output_path">>
    ELSE <<"file_path", "criteria">>

\* the png_files handed to a verifier called on its own: a PNGPaths has the six fields,
\* the dict of verify_cad_with_openai is the caller's
SuppliedTo(i) ==
    CASE i = "vllm" -> {BlenderViews}
      [] i = "openai" -> {<<>>, <<"front">>, <<"iso", "front">>, BlenderViews}
      [] OTHER -> {<<>>}

\* the entry points that read OPENAI_API_KEY
ReadsApiKey(i) == i \in {"core", "pkg", "vllm", "openai"}

\* the body of ai_3d_print verify_model runs for pkg, and for the tool once its call binds
PkgBody == impl \in {"pkg", "tool"}

\* verify_cad_query adds result["criteria"] to what verify_model returned
Finish(o) == IF impl = "tool" THEN [o EXCEPT !.criteria = args.criteria] ELSE o

\* except Exception of ai_3d_print verify_model
PkgFail(e) == Verdict("FAIL", <<"Verification failed: ", e>>, Absent)

Call ==
    /\ pc = "idle"
    /\ \E i \in Impls :
         \E a \in ArgsOf(i) :
           \E s \in SeqsUpTo(Statements, MaxRunStmts) :
             \E k \in BOOLEAN :
               \E f \in SuppliedTo(i) :
                 \E d \in SUBSET Range(f) :
                   /\ impl' = i
                   /\ args' = a
                   /\ script' = s
                   /\ (i \in {"vllm", "openai", "blender"} => s = <<>>)
                   /\ api_key' = k
                   /\ (~ReadsApiKey(i) => k)
                   /\ png_files' = f
                   /\ effects' = PngFiles(d)
                   /\ pc' = CASE i = "tool" -> "tool"
                               [] i \in {"vllm", "openai"} -> "vllm"
                               [] i = "blender" -> "blender"
                               [] OTHER -> "validate"
    /\ UNCHANGED <<calls, outcome, model, png_results, requests, outputs_dir, runs, unit, disk>>

\* verify_cad_query: verify_model(file_path, criteria=...) inside try/except Exception
VerifyCadQuery ==
    /\ pc = "tool"
    /\ IF ToolKeyword \in PkgParams
       THEN /\ pc' = "validate"
            /\ UNCHANGED outcome
       ELSE /\ pc' = "done"
            /\ outcome' = Verdict("FAIL",
                                  <<"Verification failed due to unexpected error: ",
                                    "verify_model() got an unexpected keyword argument 'criteria'">>,
                                  args.criteria)
    /\ UNCHANGED <<impl, args, script, calls, effects, model, png_results, api_key, png_files, requests, outputs_dir, runs, unit, disk>>

\* the call binds its arguments (ai_3d_print verify_model has no output_path
\* parameter), then input validation and creation of the output directory
Validate ==
    /\ pc = "validate"
    /\ IF impl = "pkg" /\ Len(Positionals(args)) > Len(PkgPositionals)
       THEN /\ pc' = "done"
            /\ outcome' = Escaped("TypeError: verify_model() takes from 1 to 2 positional arguments but 3 were given")
            /\ UNCHANGED <<effects, outputs_dir>>
       ELSE IF ~args.exists
       THEN /\ pc' = "done"
            /\ outcome' = IF PkgBody
                          THEN Finish(PkgFail("Input file does not exist"))
                          ELSE Escaped("FileNotFoundError: Input file does not exist")
            /\ UNCHANGED <<effects, outputs_dir>>
       ELSE IF ~args.py
       THEN /\ pc' = "done"
            /\ outcome' = IF PkgBody
                          THEN Finish(PkgFail("File must be a Python (.py) file"))
                          ELSE Escaped("ValueError: File must be a Python (.py) file")
            /\ UNCHANGED <<effects, outputs_dir>>
       ELSE /\ pc' = IF PkgBody THEN "load" ELSE "export"
            /\ effects' = effects \cup {OutputsDir}
            /\ outputs_dir' = IF PkgBody THEN DefaultOutputsDir(args.file_path)
                              ELSE CoreOutputsDir(args.file_path, args.output_path)
            /\ UNCHANGED outcome
    /\ UNCHANGED <<impl, args, script, calls, model, png_results, api_key, png_files, requests, runs, unit, disk>>

\* ai_3d_print verify_model: model = load_cadquery_model(script_path)
LoadModel ==
    /\ pc = "load"
    /\ LET m == load_cadquery_model(args.exists, script)
       IN  /\ model' = m
           /\ calls' = Append(calls, Called("load", IF m.ok THEN "ok" ELSE "failed"))
           /\ IF m.ok
              THEN pc' = "export" /\ UNCHANGED outcome
              ELSE pc' = "done" /\ outcome' = Finish(PkgFail(m.exc))
    /\ UNCHANGED <<impl, args, script, effects, png_results, api_key, png_files, requests, outputs_dir, runs, unit, disk>>

\* what cq-cli can do with the script: a script that raises makes it exit non-zero
CliOutcomes(s) == IF Exec(s).raised THEN {"nonzero"} ELSE {"ok", "nonzero", "timeout"}

\* src/src/render_cad.py generate_stl: True iff cq-cli exits 0, False otherwise
generate_stl(cli) == cli = "ok"

\* core verify_model, the try block around generate_stl
CoreExportOutcome(ret, crit) ==
    IF ~IsPair(ret)
    THEN VerificationResult("FAIL",
                            <<"Failed to generate STL file: ",
                              "cannot unpack non-iterable bool object">>, crit)
    ELSE IF ~ret[1]
    THEN VerificationResult("FAIL",
                            IF Truthy(ret[2])
                            THEN <<"CadQuery compilation failed: ", ret[2]>>
                            ELSE <<"Failed to generate STL file from CAD script">>, crit)
    ELSE NoOutcome

Export ==
    /\ pc = "export"
    /\ IF PkgBody
       THEN \E ok \in BOOLEAN :
              /\ calls' = Append(calls, Called("export", IF ok THEN "ok" ELSE "failed"))
              /\ effects' = IF ok THEN effects \cup {StlFile} ELSE effects
              /\ pc' = "render"
              /\ UNCHANGED outcome
       ELSE \E cli \in CliOutcomes(script) :
              LET ret == generate_stl(cli)
                  o   == CoreExportOutcome(ret, args.criteria)
              IN  /\ calls' = Append(calls, Called("export", IF ret THEN "ok" ELSE "failed"))
                  /\ effects' = IF ret THEN effects \cup {StlFile} ELSE effects
                  /\ IF o = NoOutcome
                     THEN pc' = "render" /\ UNCHANGED outcome
                     ELSE pc' = "done" /\ outcome' = o
    /\ UNCHANGED <<impl, args, script, model, png_results, api_key, png_files, requests, outputs_dir, runs, unit, disk>>

\* what the headless Blender process can do: exit 0 having written some of the six
\* images, exit non-zero, fail to start, or never exit
BlenderOutcomes ==
    [kind : {"exit0"}, written : SUBSET Range(BlenderViews)]
      \cup [kind : {"CalledProcessError", "FileNotFoundError", "never exits"}, written : {{}}]

\* the timeout= argument of the subprocess.run that starts Blender: there is none
BlenderTimeout == None

\* generate_png_views_blender from the subprocess.run on: a run that does not end, an
\* exception that leaves the temp script behind, or a PNGPaths with all six paths (the
\* loop over expected_files only logs EXISTS or MISSING)
generate_png_views_blender(b, timeout) ==
    IF b.kind = "never exits"
    THEN IF timeout = None
         THEN [ends |-> FALSE, exc |-> None, png |-> NoPng, temp_script |-> TRUE]
         ELSE [ends |-> TRUE, exc |-> "TimeoutExpired", png |-> NoPng, temp_script |-> TRUE]
    ELSE IF b.kind # "exit0"
    THEN [ends |-> TRUE, exc |-> b.kind, png |-> NoPng, temp_script |-> TRUE]
    ELSE [ends |-> TRUE, exc |-> None,
          png |-> [status |-> "paths", files |-> Range(BlenderViews), errors |-> {}],
          temp_script |-> FALSE]

\* what is on disk after the renderer: the images Blender wrote, the temp script
BlenderEffects(b, r) ==
    PngFiles(b.written) \cup (IF r.temp_script THEN {TempScript} ELSE {})

BlenderCall(r) ==
    Called("render", IF ~r.ends THEN "no response" ELSE IF r.exc = None THEN "ok" ELSE "failed")

Render ==
    /\ pc = "render"
    /\ IF PkgBody
       THEN \E mesh_ok \in BOOLEAN :
              \E ok_views \in SUBSET Range(PyrenderViews) :
                LET r == generate_png_views(mesh_ok, ok_views)
                IN  /\ png_results' = r
                    /\ calls' = Append(calls, Called("render",
                                  IF r.status = "success" THEN "ok"
                                  ELSE IF r.status = "partial" THEN "partial" ELSE "failed"))
                    /\ effects' = effects \cup PngFiles(r.files)
                    /\ pc' = "verify"
                    /\ UNCHANGED outcome
       ELSE \E b \in BlenderOutcomes :
              LET r == generate_png_views_blender(b, BlenderTimeout)
              IN  /\ calls' = Append(calls, BlenderCall(r))
                  /\ effects' = effects \cup BlenderEffects(b, r)
                  /\ png_results' = r.png
                  /\ IF ~r.ends
                     THEN pc' = "blocked" /\ UNCHANGED outcome
                     ELSE IF r.exc = None
                     THEN pc' = "verify" /\ UNCHANGED outcome
                     ELSE /\ pc' = "done"
                          /\ outcome' = VerificationResult("FAIL",
                                           <<"Failed to generate PNG views: ", r.exc>>,
                                           args.criteria)
    /\ UNCHANGED <<impl, args, script, model, api_key, png_files, requests, outputs_dir, runs, unit, disk>>

\* the renderer called on its own returned its PNGPaths (kept in png_results)
ReturnedPaths ==
    [kind |-> "returned", status |-> None, reasoning |-> <<>>, criteria |-> None, exc |-> None]

\* generate_png_views_blender called on its own with an existing STL file
GeneratePngViewsBlender ==
    /\ pc = "blender"
    /\ \E b \in BlenderOutcomes :
         LET r == generate_png_views_blender(b, BlenderTimeout)
         IN  /\ calls' = Append(calls, BlenderCall(r))
             /\ effects' = effects \cup BlenderEffects(b, r)
             /\ png_results' = r.png
             /\ IF ~r.ends
                THEN pc' = "blocked" /\ UNCHANGED outcome
                ELSE /\ pc' = "done"
                     /\ outcome' = IF r.exc = None THEN ReturnedPaths
                                   ELSE Escaped(r.exc)
    /\ UNCHANGED <<impl, args, script, model, api_key, png_files, requests, outputs_dir, runs, unit, disk>>

\* the views whose image file exists
ViewsOnDisk == {v \in Range(BlenderViews) : <<"png", v>> \in effects}

\* variant: the verifier goes on to the service without a key
verify_cad_with_vllm_NoKeyTest(key, resp, crit) ==
    IF resp.error # None
    THEN Escaped(resp.error)
    ELSE VerificationResult(resp.result, <<resp.analysis>>, crit)

\* verify_cad_with_vllm: the client is built first (no key: it raises), nothing is
\* caught, the parsed answer is copied into the verdict
verify_cad_with_vllm(key, resp, crit) ==
    IF ~key
    THEN Escaped(ApiKeyError)
    ELSE IF resp.error # None
    THEN Escaped(resp.error)
    ELSE VerificationResult(resp.result, <<resp.analysis>>, crit)

\* ai_3d_print verify_cad_with_openai: the same, the answer comes back as a dict
verify_cad_with_openai(key, resp) ==
    IF ~key
    THEN Escaped(ApiKeyError)
    ELSE IF resp.error # None
    THEN Escaped(resp.error)
    ELSE Verdict(resp.result, <<resp.analysis>>, Absent)

\* variant: the request is sent a second time
Sent_Twice(reached, model_name, msgs) ==
    IF reached
    THEN <<[model |-> model_name, messages |-> msgs], [model |-> model_name, messages |-> msgs]>>
    ELSE <<>>

\* the requests one call of a verifier sends: one, once the code reaches the line
\* that sends it
Sent(reached, model_name, msgs) ==
    IF reached THEN <<[model |-> model_name, messages |-> msgs]>> ELSE <<>>

\* core verify_model, the try block around `await verify_cad_with_vllm(...)`
CoreJudgeOutcome(key, resp, crit) ==
    LET caught(e) == VerificationResult("FAIL", <<"Failed to verify with OpenAI: ", e>>, crit)
        inner == verify_cad_with_vllm(key, resp, crit)
    IN  IF inner.kind = "raised" THEN caught(inner.exc)
        ELSE IF ~IsAwaitable("verify_cad_with_vllm")
        THEN caught("object VerificationResult can't be used in 'await' expression")
        ELSE inner

\* ai_3d_print verify_model after the render: vision call, or none
PkgCallsVision(crit, png) ==
    Truthy(crit) /\ png.status \in {"success", "partial"} /\ png.files # {}

PkgJudgeOutcome(crit, png, v) ==
    IF PkgCallsVision(crit, png)
    THEN IF v.status = "SUCCESS"
         THEN Verdict(v.verification_result,
                      <<"Vision analysis completed: ", v.verification_result>>, Absent)
         ELSE Verdict("PARTIAL",
                      <<"Model generated successfully, but vision analysis failed: ", v.message>>,
                      Absent)
    ELSE IF Truthy(crit)
    THEN Verdict("PARTIAL",
                 <<"Model generated successfully, but verification images not available">>, Absent)
    ELSE Verdict("PASS",
                 <<"CAD model generated successfully (no verification criteria provided)">>, Absent)

\* log entry of a structured-output call: what the service answered, when it did
VllmCall(key, resp) ==
    IF ~key THEN Answered("failed", None)
    ELSE IF resp.error = "ValidationError in parse" THEN Answered("failed", "malformed")
    ELSE IF resp.error # None THEN Answered("failed", None)
    ELSE Answered("ok", resp.result)

\* what the endpoint answered to analyze_cad_images_with_gpt4, when it did
RawAnswer(reply) ==
    CASE reply.kind = "json" -> reply.verification_result
      [] reply.kind \in {"not JSON", "json without verification_result"} -> reply.kind
      [] OTHER -> None

\* the views ai_3d_print verify_model hands to the vision analysis, in rendering order
RenderedViews(png) == SelectSeq(PyrenderViews, LAMBDA v : v \in png.files)

Judge ==
    /\ pc = "verify"
    /\ IF PkgBody
       THEN IF PkgCallsVision(args.criteria, png_results)
            THEN \E reply \in ServiceReplies :
                   LET images == ImageContent(RenderedViews(png_results), ViewsOnDisk, FALSE)
                       v      == analyze_cad_images_with_gpt4(api_key, images, reply)
                       sent   == api_key /\ images # <<>>
                   IN  /\ calls' = Append(calls,
                                     Answered(IF v.status = "SUCCESS" THEN "ok" ELSE "failed",
                                              IF sent THEN RawAnswer(reply) ELSE None))
                       /\ requests' = requests \o
                             Sent(sent, "gpt-4o",
                                  Messages(RenderedViews(png_results), ViewsOnDisk, FALSE))
                       /\ outcome' = Finish(PkgJudgeOutcome(args.criteria, png_results, v))
            ELSE /\ UNCHANGED <<calls, requests>>
                 /\ outcome' = Finish(PkgJudgeOutcome(args.criteria, png_results, None))
       ELSE \E resp \in VllmResponses :
              /\ calls' = Append(calls, VllmCall(api_key, resp))
              /\ requests' = requests \o
                    Sent(api_key, "o4-mini", Messages(BlenderViews, ViewsOnDisk, TRUE))
              /\ outcome' = CoreJudgeOutcome(api_key, resp, args.criteria)
    /\ pc' = "done"
    /\ UNCHANGED <<impl, args, script, effects, model, png_results, api_key, png_files, outputs_dir, runs, unit, disk>>

\* verify_cad_with_vllm and verify_cad_with_openai called on their own, as the
\* verifier tests do
VerifyCadWithVllm ==
    /\ pc = "vllm"
    /\ \E resp \in VllmResponses :
         /\ calls' = Append(calls, VllmCall(api_key, resp))
         /\ requests' = requests \o
               Sent(api_key, IF impl = "vllm" THEN "o4-mini" ELSE "o3-mini",
                    Messages(png_files, ViewsOnDisk, impl = "vllm"))
         /\ outcome' = IF impl = "vllm"
                       THEN verify_cad_with_vllm(api_key, resp, args.criteria)
                       ELSE verify_cad_with_openai(api_key, resp)
    /\ pc' = "done"
    /\ UNCHANGED <<impl, args, script, effects, model, png_results, api_key, png_files, outputs_dir, runs, unit, disk>>

Next ==
    \/ Call
    \/ VerifyCadQuery
    \/ Validate
    \/ LoadModel
    \/ Export
    \/ Render
    \/ Judge
    \/ VerifyCadWithVllm
    \/ GeneratePngViewsBlender

Spec == Init /\ [][Next]_vars

----------------------------------------------------------------------------
(* load_cadquery_model called on its own *)

LoaderInit ==
    /\ pc = "load"
    /\ impl = "loader"
    /\ args \in {a \in Args : a.py /\ a.criteria = None /\ a.output_path = None
                            /\ a.file_path = DirectPath}
    /\ script \in SeqsUpTo(Statements, MaxStmts)
    /\ calls = <<>>
    /\ effects = {}
    /\ outcome = NoOutcome
    /\ model = NoLoad
    /\ png_results = NoPng
    /\ api_key = FALSE
    /\ png_files = <<>>
    /\ requests = <<>>
    /\ outputs_dir = None
    /\ runs = <<>>
    /\ unit = NoUnit
    /\ disk = {}

LoadDirect ==
    /\ pc = "load"
    /\ impl = "loader"
    /\ model' = load_cadquery_model(args.exists, script)
    /\ pc' = "returned"
    /\ UNCHANGED <<impl, args, script, calls, effects, outcome, png_results, api_key, png_files, requests, outputs_dir, runs, unit, disk>>

LoaderNext == LoadDirect

LoaderSpec == LoaderInit /\ [][LoaderNext]_vars

----------------------------------------------------------------------------
(* Two runs of verify_model at the same time *)

\* script paths of the two runs: the evaluation cases are all <case>/model.py
PairPaths == [dir : {<<"test_cases", "mug">>, <<"test_cases", "vase">>, <<"models">>},
              stem : {"model", "cube"}]

\* a run that has not started: its script, its output_path, no directory yet
PairRuns ==
    {r \in [impl : {"core", "pkg"}, file_path : PairPaths, output_path : {None, "custom"},
            at : {"validate"}, outputs_dir : {<<>>}, files : {{}}, judged : {{}}] :
        r.impl = "pkg" => r.output_path = None}

PairInit ==
    /\ pc = "pair"
    /\ impl = "pair"
    /\ runs \in {r \in [1..2 -> PairRuns] : r[1].file_path # r[2].file_path}
    /\ args = NoArgs
    /\ script = <<>>
    /\ calls = <<>>
    /\ effects = {}
    /\ outcome = NoOutcome
    /\ model = NoLoad
    /\ png_results = NoPng
    /\ api_key = FALSE
    /\ png_files = <<>>
    /\ requests = <<>>
    /\ outputs_dir = None
    /\ unit = NoUnit
    /\ disk = {}

\* stl_path = outputs_dir / f"{file_name}.stl"
StlPath(run) == run.outputs_dir \o <<<<run.file_path.stem, ".stl">>>>

\* output_dir / f"{base_name}_{view}.png"
PngPath(run, v) == run.outputs_dir \o <<<<run.file_path.stem, v, ".png">>>>

\* run r validates its input and creates its output directory
PairValidate(r) ==
    /\ pc = "pair"
    /\ runs[r].at = "validate"
    /\ runs' = [runs EXCEPT ![r].at = "export",
                            ![r].outputs_dir =
                                IF runs[r].impl = "pkg"
                                THEN DefaultOutputsDir(runs[r].file_path)
                                ELSE CoreOutputsDir(runs[r].file_path, runs[r].output_path)]
    /\ UNCHANGED <<pc, impl, args, script, calls, effects, outcome, model, png_results,
                   api_key, png_files, requests, outputs_dir, unit, disk>>

\* run r exports its mesh; whatever cq-cli does, a run of src/src verify_model then
\* ends (see Export), a run of ai_3d_print verify_model goes on to render
PairExport(r) ==
    /\ pc = "pair"
    /\ runs[r].at = "export"
    /\ \E cli \in {"ok", "nonzero", "timeout"} :
         effects' = IF generate_stl(cli)
                    THEN effects \cup {[path |-> StlPath(runs[r]), by |-> r]}
                    ELSE effects
    /\ runs' = [runs EXCEPT ![r].at = IF runs[r].impl = "pkg" THEN "render" ELSE "done"]
    /\ UNCHANGED <<pc, impl, args, script, calls, outcome, model, png_results,
                   api_key, png_files, requests, outputs_dir, unit, disk>>

\* the views a run of the pair may render
PairViews == {"front", "iso"}

\* the file at path p now holds what run r wrote
Overwrite(d, paths, r) ==
    {f \in d : f.path \notin paths} \cup {[path |-> p, by |-> r] : p \in paths}

\* run r of ai_3d_print verify_model renders: each image is saved under its path,
\* replacing the file that was there
PairRender(r) ==
    /\ pc = "pair"
    /\ runs[r].at = "render"
    /\ \E ok_views \in SUBSET PairViews :
         LET paths == {PngPath(runs[r], v) : v \in ok_views}
         IN  /\ runs' = [runs EXCEPT ![r].at = "verify", ![r].files = ok_views]
             /\ effects' = effects \cup {[path |-> p, by |-> r] : p \in paths}
             /\ disk' = Overwrite(disk, paths, r)
    /\ UNCHANGED <<pc, impl, args, script, calls, outcome, model, png_results,
                   api_key, png_files, requests, outputs_dir, unit>>

\* run r of ai_3d_print verify_model hands png_results["files"] to the vision
\* analysis, which reads each path and encodes what the file holds at that moment
PairJudge(r) ==
    /\ pc = "pair"
    /\ runs[r].at = "verify"
    /\ runs' = [runs EXCEPT ![r].at = "done",
                            ![r].judged =
                                {[view |-> v, by |-> f.by] :
                                    <<v, f>> \in {<<w, g>> \in runs[r].files \X disk :
                                                     g.path = PngPath(runs[r], w)}}]
    /\ UNCHANGED <<pc, impl, args, script, calls, effects, outcome, model, png_results,
                   api_key, png_files, requests, outputs_dir, unit, disk>>

PairNext ==
    \E r \in 1..2 : PairValidate(r) \/ PairExport(r) \/ PairRender(r) \/ PairJudge(r)

PairSpec == PairInit /\ [][PairNext]_vars

----------------------------------------------------------------------------
(* Functions called on their own *)

\* members of the enum VerificationResult of ai_3d_print/models
ResponseStatuses == {"PASS", "FAIL", "ERROR"}

Details == {"", "matches the criteria"}
ErrorMessages == {None, "", "OpenAI API key not provided"}

\* ways to build a VerificationResponse: the constructor and the three classmethods
ResponseInputs ==
    [via : {"__init__"}, status : ResponseStatuses, details : Details,
     error_message : ErrorMessages]
      \cup [via : {"success", "failure"}, status : {None}, details : Details,
            error_message : {None}]
      \cup [via : {"error"}, status : {None}, details : {None}, error_message : ErrorMessages]

\* variant: only the ERROR rule is tested
post_init_ErrorRuleOnly(r) ==
    IF r.status = "ERROR" /\ ~Truthy(r.error_message)
    THEN "ValueError: ERROR status requires an error_message"
    ELSE None

\* VerificationResponse.__post_init__: the ValueError it raises, or None
post_init(r) ==
    IF r.status = "ERROR" /\ ~Truthy(r.error_message)
    THEN "ValueError: ERROR status requires an error_message"
    ELSE IF r.status # "ERROR" /\ Truthy(r.error_message)
    THEN "ValueError: Non-ERROR status should not have error_message"
    ELSE None

\* the dataclass constructor: the fields are stored, then __post_init__ runs
VerificationResponse(status, details, error_message) ==
    LET r == [status |-> status, details |-> details, error_message |-> error_message]
    IN  [exc |-> post_init(r), value |-> r]

\* the classmethods success, failure and error
success(details) == VerificationResponse("PASS", details, None)
failure(details) == VerificationResponse("FAIL", details, None)
error(error_message) ==
    VerificationResponse("ERROR", "Verification could not be completed", error_message)

Build(i) ==
    CASE i.via = "__init__" -> VerificationResponse(i.status, i.details, i.error_message)
      [] i.via = "success" -> success(i.details)
      [] i.via = "failure" -> failure(i.details)
      [] i.via = "error" -> error(i.error_message)

\* vectors are triples of integers; a vector of floats is [v, s2]: v divided by the
\* square root of s2. s2 = 0 stands for the nan a division by a zero norm gives.
Dot(a, b) == a[1] * b[1] + a[2] * b[2] + a[3] * b[3]
Sub(a, b) == <<a[1] - b[1], a[2] - b[2], a[3] - b[3]>>
Cross(a, b) ==
    <<a[2] * b[3] - a[3] * b[2], a[3] * b[1] - a[1] * b[3], a[1] * b[2] - a[2] * b[1]>>

Abs(n) == IF n < 0 THEN 0 - n ELSE n

RECURSIVE Gcd(_, _)
Gcd(a, b) == IF b = 0 THEN a ELSE Gcd(b, a % b)

\* the same direction with the smallest integer components
Reduce(v) ==
    LET g == Gcd(Gcd(Abs(v[1]), Abs(v[2])), Abs(v[3]))
    IN  IF g = 0 THEN v ELSE <<v[1] \div g, v[2] \div g, v[3] \div g>>

Exact(v) == [v |-> v, s2 |-> 1]
IsNan(x) == x.s2 = 0

\* np.cross of two float vectors
CrossS(a, b) == [v |-> Cross(a.v, b.v), s2 |-> a.s2 * b.s2]

\* variant: the vector is returned as it is
Normalize_Skipped(x) == x

\* x / np.linalg.norm(x): nan when the norm is zero
Normalize(x) ==
    LET d == Reduce(x.v)
    IN  [v |-> d, s2 |-> IF IsNan(x) THEN 0 ELSE Dot(d, d)]

NegS(x) == [v |-> <<0 - x.v[1], 0 - x.v[2], 0 - x.v[3]>>, s2 |-> x.s2]

\* look_at: the columns right, up_corrected and -forward of the matrix it returns
look_at(eye, target, up) ==
    LET forward      == Normalize(Exact(Sub(target, eye)))
        right        == Normalize(CrossS(forward, Exact(up)))
        up_corrected == Normalize(CrossS(right, forward))
    IN  [right |-> right, up |-> up_corrected, back |-> NegS(forward), eye |-> eye]

\* ten times the sine and the cosine of the angles of the view table, rounded
Sin10(deg) ==
    CASE deg = 0 -> 0 [] deg = 20 -> 3 [] deg = 25 -> 4 [] deg = 35 -> 6 [] deg = 45 -> 7
      [] deg = 85 -> 10 [] deg = 90 -> 10 [] deg = 135 -> 7 [] deg = 315 -> 0 - 7
      [] deg = 0 - 45 -> 0 - 7
Cos10(deg) ==
    CASE deg = 0 -> 10 [] deg = 20 -> 9 [] deg = 25 -> 9 [] deg = 35 -> 8 [] deg = 45 -> 7
      [] deg = 85 -> 1 [] deg = 90 -> 0 [] deg = 135 -> 0 - 7 [] deg = 315 -> 7
      [] deg = 0 - 45 -> 7

\* views = {name: (theta, phi, radius)}, the radius in tenths
ViewTable ==
    [front |-> <<0, 20, 30>>, right |-> <<90, 20, 30>>, top |-> <<0, 85, 30>>,
     iso |-> <<45, 35, 35>>, back_left |-> <<135, 25, 32>>,
     bottom_right |-> <<315, 0 - 45, 30>>]

WorldUp == <<0, 1, 0>>
Origin == <<0, 0, 0>>

\* spherical_pose: the eye on the sphere, then look_at towards the origin
spherical_pose(theta_deg, phi_deg, radius) ==
    LET x == radius * Cos10(phi_deg) * Sin10(theta_deg)
        y == radius * Sin10(phi_deg) * 10
        z == radius * Cos10(phi_deg) * Cos10(theta_deg)
    IN  look_at(<<x, y, z>>, Origin, WorldUp)

\* eyes handed to look_at directly
Eyes == {e \in (-2..2) \X (-2..2) \X (-2..2) : e # Origin}

\* what happens inside a generator: whether the stage before the loop worked (only
\* generate_png_views has one), the views the loop goes through, those that succeed
GeneratorInputs(views, before) ==
    {i \in [before_ok : before, views : {Range(views)}, ok_views : SUBSET Range(views)] :
        ~i.before_ok => i.ok_views = {}}

\* a function about to be called with its input
UnitCalls ==
    {[fn |-> "VerificationResponse", at |-> "called", input |-> i, output |-> None] :
        i \in ResponseInputs}
      \cup {[fn |-> "look_at", at |-> "called", input |-> e, output |-> None] : e \in Eyes}
      \cup {[fn |-> "spherical_pose", at |-> "called", input |-> n, output |-> None] :
              n \in Range(BlenderViews)}
      \cup {[fn |-> "generate_png_views", at |-> "called", input |-> i, output |-> None] :
              i \in GeneratorInputs(PyrenderViews, BOOLEAN)}
      \cup {[fn |-> "generate_svg_views", at |-> "called", input |-> i, output |-> None] :
              i \in GeneratorInputs(SvgViews, {TRUE})}
      \cup {[fn |-> "convert_svg_views_to_png", at |-> "called", input |-> i,
             output |-> None] :
              i \in UNION {GeneratorInputs(SelectSeq(SvgViews, LAMBDA v : v \in f), {TRUE}) :
                             f \in SUBSET Range(SvgViews)}}

UnitInit ==
    /\ pc = "unit"
    /\ impl = "unit"
    /\ unit \in UnitCalls
    /\ disk = {}
    /\ runs = <<>>
    /\ args = NoArgs
    /\ script = <<>>
    /\ calls = <<>>
    /\ effects = {}
    /\ outcome = NoOutcome
    /\ model = NoLoad
    /\ png_results = NoPng
    /\ api_key = FALSE
    /\ png_files = <<>>
    /\ requests = <<>>
    /\ outputs_dir = None

Construct ==
    /\ pc = "unit"
    /\ unit.fn = "VerificationResponse"
    /\ unit.at = "called"
    /\ unit' = [unit EXCEPT !.at = "returned", !.output = Build(unit.input)]
    /\ UNCHANGED <<pc, impl, args, script, calls, effects, outcome, model, png_results,
                   api_key, png_files, requests, outputs_dir, runs, disk>>

\* look_at(eye, origin, world up)
LookAt ==
    /\ pc = "unit"
    /\ unit.fn = "look_at"
    /\ unit.at = "called"
    /\ unit' = [unit EXCEPT !.at = "returned",
                            !.output = look_at(unit.input, Origin, WorldUp)]
    /\ UNCHANGED <<pc, impl, args, script, calls, effects, outcome, model, png_results,
                   api_key, png_files, requests, outputs_dir, runs, disk>>

\* camera_pose = spherical_pose(theta, phi, radius) for an entry of the table
SphericalPose ==
    /\ pc = "unit"
    /\ unit.fn = "spherical_pose"
    /\ unit.at = "called"
    /\ LET t == ViewTable[unit.input]
       IN  unit' = [unit EXCEPT !.at = "returned",
                                !.output = spherical_pose(t[1], t[2], t[3])]
    /\ UNCHANGED <<pc, impl, args, script, calls, effects, outcome, model, png_results,
                   api_key, png_files, requests, outputs_dir, runs, disk>>

GeneratePngViews ==
    /\ pc = "unit"
    /\ unit.fn = "generate_png_views"
    /\ unit.at = "called"
    /\ unit' = [unit EXCEPT !.at = "returned",
                   !.output = generate_png_views(unit.input.before_ok, unit.input.ok_views)]
    /\ UNCHANGED <<pc, impl, args, script, calls, effects, outcome, model, png_results,
                   api_key, png_files, requests, outputs_dir, runs, disk>>

GenerateSvgViews ==
    /\ pc = "unit"
    /\ unit.fn = "generate_svg_views"
    /\ unit.at = "called"
    /\ unit' = [unit EXCEPT !.at = "returned",
                            !.output = generate_svg_views(unit.input.ok_views)]
    /\ UNCHANGED <<pc, impl, args, script, calls, effects, outcome, model, png_results,
                   api_key, png_files, requests, outputs_dir, runs, disk>>

ConvertSvgViewsToPng ==
    /\ pc = "unit"
    /\ unit.fn = "convert_svg_views_to_png"
    /\ unit.at = "called"
    /\ unit' = [unit EXCEPT !.at = "returned",
                   !.output = convert_svg_views_to_png(unit.input.views, unit.input.ok_views)]
    /\ UNCHANGED <<pc, impl, args, script, calls, effects, outcome, model, png_results,
                   api_key, png_files, requests, outputs_dir, runs, disk>>

UnitNext ==
    \/ Construct
    \/ LookAt
    \/ SphericalPose
    \/ GeneratePngViews
    \/ GenerateSvgViews
    \/ ConvertSvgViewsToPng

UnitSpec == UnitInit /\ [][UnitNext]_vars

----------------------------------------------------------------------------
(* Properties of a verification run *)

LastCall == calls[Len(calls)]

\* the run is over and the entry point was one of the orchestrators
Finished(impls) == pc = "done" /\ impl \in impls

AllStagesOk == calls # <<>> /\ \A i \in 1..Len(calls) : calls[i].result = "ok"

StageRank(st) ==
    CASE st = "load" -> 1
      [] st = "export" -> 2
      [] st = "render" -> 3
      [] st = "vision" -> 4

\* the script contains a statement that raises when it is run
RaisesAtRunTime(s) == \E i \in 1..Len(s) : s[i].op = "raise"

Produced == effects \ {OutputsDir}

\* C1: whenever verify_model or verify_cad_query has finished, it has handed back a
\* verdict with a status and a reasoning text: no exception left the entry point.
C1_NoExceptionEscapes ==
    Finished({"core", "pkg", "tool"}) =>
        /\ outcome.kind = "verdict"
        /\ outcome.status # None
        /\ outcome.reasoning # <<>>

\* C2: a missing file or a wrong extension ends verify_model with an ERROR verdict,
\* with no stage invoked, no output directory and no file produced.
C2_InputErrorBeforePipeline ==
    (Finished({"core", "pkg"}) /\ (~args.exists \/ ~args.py)) =>
        /\ outcome.kind = "verdict"
        /\ outcome.status = "ERROR"
        /\ calls = <<>>
        /\ effects = {}

\* C3: a run that ended on a failed stage reports FAIL when that stage is load, export
\* or render, and ERROR when it is the vision verifier.
C3_FailStatusByStage ==
    (Finished({"core", "pkg"}) /\ outcome.kind = "verdict"
        /\ calls # <<>> /\ LastCall.result = "failed") =>
        outcome.status = IF LastCall.stage = "vision" THEN "ERROR" ELSE "FAIL"

\* C4: a finished run of verify_model in which every invoked stage succeeded ends with
\* the vision service's answer: the verdict carries its PASS/FAIL and its analysis.
C4_VisionAnswerIsVerdict ==
    (Finished({"core"}) /\ AllStagesOk /\ Truthy(args.criteria)) =>
        /\ outcome.kind = "verdict"
        /\ LastCall.stage = "vision"
        /\ LastCall.answer \in {"PASS", "FAIL"} =>
               /\ outcome.status = LastCall.answer
               /\ outcome.reasoning = <<"looks like a cube">>

\* C5: the stages of one run are invoked in pipeline order, and a stage is invoked only
\* after the stage before it succeeded.
C5_StagesInOrderAfterSuccess ==
    impl \in {"core", "pkg"} =>
        \A i \in 2..Len(calls) :
            /\ StageRank(calls[i - 1].stage) < StageRank(calls[i].stage)
            /\ calls[i - 1].result = "ok"

\* C6: the status of every returned verdict is PASS, FAIL or ERROR.
C6_StatusInEnum ==
    (Finished({"core", "pkg", "tool"}) /\ outcome.kind = "verdict") =>
        outcome.status \in {"PASS", "FAIL", "ERROR"}

C8_ScriptErrorReported ==
    (Finished({"core", "pkg"}) /\ outcome.kind = "verdict"
        /\ args.exists /\ args.py /\ RaisesAtRunTime(script)) =>
        /\ \E k \in 1..Len(outcome.reasoning) : outcome.reasoning[k] = "boom"
        /\ Produced = {}

----------------------------------------------------------------------------
(* Properties of load_cadquery_model *)

\* the loader was called on an existing script that runs to its end
LoadedWhole ==
    /\ impl = "loader"
    /\ pc = "returned"
    /\ args.exists
    /\ ~RaisesAtRunTime(script)

\* positions of the show_object calls that publish a Workplane
SolidShows(s) == {i \in 1..Len(s) : s[i].op = "show" /\ IsWorkplane(s[i].value)}

PublishedSolids(s) == {s[i].value : i \in SolidShows(s)}

\* the value a name is bound to when the script ends (None when unbound)
FinalBinding(s, n) ==
    LET at == {i \in 1..Len(s) : s[i].op = "bind" /\ s[i].name = n}
    IN  IF at = {} THEN None ELSE s[CHOOSE i \in at : \A j \in at : j <= i].value

CandidateSolids(s) ==
    {FinalBinding(s, result_candidates[k]) : k \in 1..Len(result_candidates)} \cap Workplanes

\* C9: when the script published at least one solid, the loader returns a published
\* solid, whatever result, model, part or shape are bound to.
C9_PublishedPreferred ==
    (LoadedWhole /\ PublishedSolids(script) # {}) =>
        /\ model.ok
        /\ model.value \in PublishedSolids(script)

\* W1 was published, result is bound to the other solid W2, and W1 came back
C9_Witness ==
    /\ LoadedWhole
    /\ PublishedSolids(script) = {"W1"}
    /\ FinalBinding(script, "result") = "W2"
    /\ model.ok
    /\ model.value = "W1"

\* C10: the loader returns the first published solid in call order; published values
\* of another type are skipped, and with no published solid a conventional name
\* that holds a solid is returned instead.
C10_FirstPublishedSolid ==
    LoadedWhole =>
        IF SolidShows(script) # {}
        THEN /\ model.ok
             /\ \E i \in SolidShows(script) :
                    /\ \A j \in SolidShows(script) : i <= j
                    /\ model.value = script[i].value
        ELSE CandidateSolids(script) # {} =>
                /\ model.ok
                /\ model.value \in CandidateSolids(script)

\* a non-solid was published first, then W2, then W1: W2 came back
C10_Witness ==
    /\ LoadedWhole
    /\ Len(script) = 3
    /\ script[1].op = "show" /\ script[1].value = "N1"
    /\ script[2].op = "show" /\ script[2].value = "W2"
    /\ script[3].op = "show" /\ script[3].value = "W1"
    /\ model.ok
    /\ model.value = "W2"

\* names whose binding is public when the script ends
PublicNames == {n \in Names : ~StartsWithUnderscore(n)}

\* position of the statement that first binds a name: its place in the namespace
FirstBound(s, n) ==
    LET at == {i \in 1..Len(s) : s[i].op = "bind" /\ s[i].name = n}
    IN  CHOOSE i \in at : \A j \in at : i <= j

\* public names that hold a solid when the script ends
PublicSolidNames(s) == {n \in PublicNames : FinalBinding(s, n) \in Workplanes}

\* conventional names, by rank, that hold a solid when the script ends
CandidateRanks(s) ==
    {k \in 1..Len(result_candidates) : FinalBinding(s, result_candidates[k]) \in Workplanes}

\* C11: with no published solid the loader returns the binding of the first of result,
\* model, part, shape that holds a solid; when none does, it returns the public
\* binding holding a solid whose name entered the namespace first.
C11_FallbackOrder ==
    (LoadedWhole /\ SolidShows(script) = {}) =>
        IF CandidateRanks(script) # {}
        THEN /\ model.ok
             /\ \E k \in CandidateRanks(script) :
                    /\ \A j \in CandidateRanks(script) : k <= j
                    /\ model.value = FinalBinding(script, result_candidates[k])
        ELSE PublicSolidNames(script) # {} =>
                /\ model.ok
                /\ \E n \in PublicSolidNames(script) :
                       /\ \A m \in PublicSolidNames(script) :
                              FirstBound(script, n) <= FirstBound(script, m)
                       /\ model.value = FinalBinding(script, n)

\* shape got W1 first, result got W2 later: result's W2 came back
C11_Witness ==
    /\ LoadedWhole
    /\ SolidShows(script) = {}
    /\ Len(script) >= 2
    /\ script[1] = [op |-> "bind", name |-> "shape", value |-> "W1"]
    /\ script[2] = [op |-> "bind", name |-> "result", value |-> "W2"]
    /\ model.ok
    /\ model.value = "W2"

\* the script leaves nothing the loader recognises: no published solid and no public
\* name (conventional or not) holding a solid when it ends
LeavesNoSolid(s) == SolidShows(s) = {} /\ PublicSolidNames(s) = {}

NoModelMessage == "No CAD-Query Workplane object found in script"

RenderOrLaterCalled ==
    \E i \in 1..Len(calls) : calls[i].stage \in {"export", "render", "vision"}

C13_MissingViewReported ==
    (impl = "blender" /\ pc = "done" /\ outcome.kind = "returned") =>
        /\ png_results.files = ViewsOnDisk
        /\ png_results.errors = Range(BlenderViews) \ ViewsOnDisk
        /\ (ViewsOnDisk # Range(BlenderViews) => png_results.status = "partial")

\* C14: no call of the external renderer or of the vision service is left waiting
\* for ever: a process or service that does not respond ends the call by a timeout,
\* so every run goes on to return. (A run in "blocked" has no step left to take.)
C14_ExternalCallsBounded == pc # "blocked"

\* the views of the image items of a content list, in their order
ImageViews(content) ==
    LET imgs == SelectSeq(content, LAMBDA it : it.type = "image_url")
    IN  [i \in 1..Len(imgs) |-> imgs[i].about]

\* C15: every request sent to the vision service by verify_model or by
\* verify_cad_with_vllm holds exactly one image for each of the six views, in the
\* order front, right, top, iso, back_left, bottom_right.
C15_SixViewsInOrder ==
    impl \in {"core", "vllm"} =>
        \A i \in 1..Len(requests) :
            ImageViews(requests[i].messages[1].content) = BlenderViews

\* C16: when the image file of every supplied view exists, a request is one user
\* message whose content is the text block followed only by image items, one for each
\* supplied view in the order supplied.
C16_TextThenImagesOnly ==
    (impl \in {"vllm", "openai"} /\ Range(png_files) \subseteq ViewsOnDisk) =>
        \A i \in 1..Len(requests) :
            LET msgs    == requests[i].messages
                content == msgs[1].content
            IN  /\ Len(msgs) = 1
                /\ msgs[1].role = "user"
                /\ content[1] = PromptItem
                /\ Len(content) = 1 + Len(png_files)
                /\ \A j \in 1..Len(png_files) : content[j + 1] = ImageItem(png_files[j])

\* the run's outcome is an error of the verifier, not a judgment
VerifierErrorReported ==
    \/ outcome.kind = "raised"
    \/ outcome.kind = "verdict" /\ outcome.status \in {"ERROR", "PARTIAL"}

\* C17: an answer of the vision service that is not a {result, analysis} pair with
\* result PASS or FAIL is reported as an error of the verifier: it never becomes the
\* run's judgment.
C17_MalformedAnswerIsError ==
    (pc = "done" /\ impl \in {"pkg", "vllm", "openai"} /\ calls # <<>>
        /\ LastCall.stage = "vision" /\ LastCall.answer \notin {None, "PASS", "FAIL"}) =>
        VerifierErrorReported

\* C18: with no API key configured, a verifier that is invoked sends nothing and ends
\* with the api-key error: verify_cad_with_vllm and verify_cad_with_openai raise it,
\* ai_3d_print verify_model reports it in a PARTIAL result; none gives PASS or FAIL.
C18_NoKeyIsAnError ==
    (pc = "done" /\ impl \in {"pkg", "vllm", "openai"} /\ ~api_key
        /\ calls # <<>> /\ LastCall.stage = "vision") =>
        /\ requests = <<>>
        /\ LastCall.result = "failed"
        /\ impl \in {"vllm", "openai"} => outcome = Escaped(ApiKeyError)
        /\ impl = "pkg" =>
               /\ outcome.kind = "verdict"
               /\ outcome.status = "PARTIAL"
               /\ outcome.reasoning[Len(outcome.reasoning)] = "OpenAI API key not provided"

\* six images on disk, criteria given, no key: verify_cad_with_vllm raised
C18_Witness ==
    /\ impl = "vllm"
    /\ pc = "done"
    /\ ~api_key
    /\ args.criteria = "a simple cube"
    /\ ViewsOnDisk = Range(BlenderViews)
    /\ outcome = Escaped(ApiKeyError)
    /\ requests = <<>>

\* how many times a stage was invoked in the run
Invocations(st) == Cardinality({i \in 1..Len(calls) : calls[i].stage = st})

VerifierInvoked == \E i \in 1..Len(calls) : calls[i].stage = "vision"

C20_OutputDirectory ==
    (Finished({"core", "pkg"}) /\ args.exists /\ args.py) =>
        /\ OutputsDir \in effects
        /\ IF args.output_path # None
           THEN outputs_dir = <<args.output_path, args.file_path.stem>>
           ELSE outputs_dir \in
                  {args.file_path.dir \o <<"outputs", args.file_path.stem>>,
                   Parent(args.file_path.dir) \o <<"outputs", args.file_path.stem>>}

\* the files of the model that lie outside the output directory: the control script
\* the renderer writes to the system temp directory
OutsideOutputsDir == {TempScript}

\* C21: on every path, failures included, the files a run has created or left behind
\* are inside its output directory; nothing of the run remains outside it.
C21_EffectsConfined == \A f \in OutsideOutputsDir : f \notin effects

\* the mesh and image paths of a run that has its output directory
PathsOf(run) == {StlPath(run)} \cup {PngPath(run, v) : v \in Range(BlenderViews)}

\* C22: two runs on two different script paths have disjoint mesh and image paths,
\* and no file is written by both.
C22_RunsDisjoint ==
    (pc = "pair" /\ runs[1].outputs_dir # <<>> /\ runs[2].outputs_dir # <<>>) =>
        /\ PathsOf(runs[1]) \cap PathsOf(runs[2]) = {}
        /\ \A e \in effects : \A f \in effects : e.path = f.path => e.by = f.by

\* the result is the fallback of verify_cad_query's except block
IsToolFallback == outcome.reasoning[1] = "Verification failed due to unexpected error: "

\* C23: verify_cad_query on an existing .py script that runs to its end returns the
\* result of the pipeline, which ran (load, export, render were invoked), with the
\* criteria attached; it does not return the unexpected-error fallback.
C23_ToolReturnsPipelineResult ==
    (Finished({"tool"}) /\ args.exists /\ args.py /\ ~RaisesAtRunTime(script)) =>
        /\ outcome.kind = "verdict"
        /\ outcome.criteria = args.criteria
        /\ calls # <<>>
        /\ ~IsToolFallback

\* a VerificationResponse was built or rejected
ResponseDone == pc = "unit" /\ unit.fn = "VerificationResponse" /\ unit.at = "returned"

\* C24: a VerificationResponse that exists with status ERROR has a non-empty
\* error_message and one with status PASS or FAIL has none; a construction that
\* would break either rule raises instead of returning a response.
C24_ErrorMessageRule ==
    ResponseDone =>
        LET r == unit.output.value
        IN  IF unit.output.exc = None
            THEN /\ r.status = "ERROR" => r.error_message \notin {None, ""}
                 /\ r.status \in {"PASS", "FAIL"} => r.error_message \in {None, ""}
            ELSE \/ r.status = "ERROR" /\ r.error_message \in {None, ""}
                 \/ r.status \in {"PASS", "FAIL"} /\ r.error_message \notin {None, ""}

\* the constructor was given PASS together with a message and raised
C24_Witness ==
    /\ ResponseDone
    /\ unit.input.via = "__init__"
    /\ unit.input.status = "PASS"
    /\ unit.input.error_message = "OpenAI API key not provided"
    /\ unit.output.exc = "ValueError: Non-ERROR status should not have error_message"

\* a float vector of length one, and two float vectors at a right angle
IsUnit(x) == ~IsNan(x) /\ Dot(x.v, x.v) = x.s2
Orthogonal(x, y) == ~IsNan(x) /\ ~IsNan(y) /\ Dot(x.v, y.v) = 0

Orthonormal(b) ==
    /\ IsUnit(b.right) /\ IsUnit(b.up) /\ IsUnit(b.back)
    /\ Orthogonal(b.right, b.up) /\ Orthogonal(b.up, b.back) /\ Orthogonal(b.back, b.right)

\* the eye is on the world-up axis: the viewing direction is parallel to world up
OnUpAxis(e) == e[1] = 0 /\ e[3] = 0

\* C25: look_at with the viewing direction parallel to the world-up vector returns a
\* finite orthonormal basis: no vector of it is nan.
C25_LookAtOnUpAxis ==
    (pc = "unit" /\ unit.fn = "look_at" /\ unit.at = "returned" /\ OnUpAxis(unit.input)) =>
        Orthonormal(unit.output)

\* C26: for each of the six entries of the view table, the basis (right, up', -forward)
\* that spherical_pose and look_at compute is orthonormal.
C26_TableBasisOrthonormal ==
    (pc = "unit" /\ unit.fn = "spherical_pose" /\ unit.at = "returned") =>
        Orthonormal(unit.output)

\* the basis of the iso view: no vector of it is along an axis
C26_Witness ==
    /\ pc = "unit"
    /\ unit.fn = "spherical_pose"
    /\ unit.at = "returned"
    /\ unit.input = "iso"
    /\ Orthonormal(unit.output)
    /\ \A i \in 1..3 : unit.output.up.v[i] # 0

\* C27: every image a run of verify_model submits to the vision service was written
\* by the render stage of that run, not by an earlier or a concurrent run.
C27_JudgedImagesAreOwn ==
    pc = "pair" => \A r \in 1..2 : \A j \in runs[r].judged : j.by = r

\* the stage was invoked in this run and ended well
StageOk(st) == \E i \in 1..Len(calls) : calls[i].stage = st /\ calls[i].result = "ok"

\* C28: a verification that returns PASS exported the mesh file and rendered at least
\* one image in that run; a run whose STL export failed or that produced no image
\* never returns PASS.
C28_PassNeedsMeshAndImages ==
    (Finished({"core", "pkg", "tool"}) /\ outcome.status = "PASS") =>
        /\ StageOk("export")
        /\ StlFile \in effects
        /\ png_results.files # {}

\* ai_3d_print verify_model with an empty criteria string, on a script that loads: the
\* three stages run once each, nothing is sent, the result is PASS with the note
EmptyCriteriaPkg ==
    (Finished({"pkg"}) /\ args.criteria = "" /\ model.ok) =>
        /\ Invocations("load") = 1 /\ Invocations("export") = 1 /\ Invocations("render") = 1
        /\ ~VerifierInvoked
        /\ requests = <<>>
        /\ outcome.status = "PASS"
        /\ outcome.reasoning =
             <<"CAD model generated successfully (no verification criteria provided)">>

\* src/src verify_model with an empty criteria string, on a script cq-cli exported:
\* the export and the render stages run
EmptyCriteriaCore ==
    (Finished({"core"}) /\ args.criteria = "" /\ StageOk("export")) =>
        Invocations("render") = 1

\* C29: with an empty criteria string the pipeline still runs the load, export and
\* render stages; ai_3d_print verify_model then never calls the vision service and
\* returns PASS with the note that no verification criteria were provided.
C29_EmptyCriteriaStillRenders == EmptyCriteriaPkg /\ EmptyCriteriaCore

\* a per-view generator returned after its loop over the views ran
GeneratorDone ==
    /\ pc = "unit"
    /\ unit.fn \in {"generate_png_views", "generate_svg_views", "convert_svg_views_to_png"}
    /\ unit.at = "returned"
    /\ unit.input.before_ok

\* C30: the three per-view generators classify their outcome the same way after any
\* sequence of per-view successes and failures: success iff no view failed, error iff
\* at least one failed and none succeeded, partial otherwise; each view is in exactly
\* one of files and errors.
C30_GeneratorStatus ==
    GeneratorDone =>
        LET failed    == unit.input.views \ unit.input.ok_views
            succeeded == unit.input.ok_views
            out       == unit.output
        IN  /\ out.status = "success" <=> failed = {}
            /\ out.status = "error" <=> (failed # {} /\ succeeded = {})
            /\ out.status = "partial" <=> (failed # {} /\ succeeded # {})
            /\ out.files = succeeded
            /\ out.errors = failed
            /\ out.files \cap out.errors = {}
            /\ out.files \cup out.errors = unit.input.views

\* a conversion of three views of which one failed: partial
C30_Witness ==
    /\ GeneratorDone
    /\ unit.fn = "convert_svg_views_to_png"
    /\ Cardinality(unit.input.views) = 3
    /\ Cardinality(unit.output.errors) = 1
    /\ unit.output.status = "partial"

====
